---- MODULE Spec2Model ----
(***************************************************************************)
(* Model of rust-core (Hurotamo/swapses): the wasm entry points of lib.rs  *)
(* and the functions of bip39.rs, hd_wallet.rs and utils.rs they call.     *)
(*                                                                         *)
(* One call runs at a time.  Its locals (seed, master_key, i, wallets) are *)
(* the state; every `?` of the source is a branch to the error return.     *)
(* The library calls the source makes (Mnemonic::from_phrase, to_seed,     *)
(* ExtendedPrivKey::new, path.parse, derive_priv, PublicKey::..., Keccak,  *)
(* hex::encode) are operators that keep the libraries' shapes: byte        *)
(* lengths, the hardened bit, the range check on the derived scalar.  The  *)
(* digests themselves are small arithmetic stand-ins.                      *)
(***************************************************************************)
EXTENDS Integers, Sequences, FiniteSets, TLC

VARIABLES
    pc,            \* position of the running call: idle, seed, master, parent, loop, done
    op,            \* the lib.rs entry point that is running
    phase,         \* which hd_wallet function the call is inside
    mnemonic,      \* argument `mnemonic` (the phrase, as its words)
    count,         \* argument `count` of derive_child_wallets
    seed,          \* local `seed`
    master_key,    \* local `master_key`
    i,             \* loop variable of `for i in 0..count`
    wallets,       \* local `wallets`
    parent,        \* local `parent` of create_split_operation
    result,        \* what the entry point returned
    walked,        \* history: the child numbers handed to the last derive_priv
    noted,         \* history: one earlier call and what it returned
    hmacFault,     \* the HMAC-SHA512 inputs whose left half is no valid scalar
    pc2,           \* a second caller, inside derive_parent_wallet: its position,
    mnemonic2,     \*   its argument,
    seed2,         \*   its local `seed`,
    master_key2,   \*   its local `master_key`,
    result2        \*   and what it returned

other == <<pc2, mnemonic2, seed2, master_key2, result2>>

vars == <<pc, op, phase, mnemonic, count, seed, master_key, i, wallets,
          parent, result, walked, noted, hmacFault, other>>

(***************************************************************************)
(* Bounds of the model.                                                    *)
(***************************************************************************)
\* Width of a child index in bits (u32 in the source, scaled down).
IndexBits == 8
\* derive_child_wallets is called with every count up to this one ...
MaxSmallCount == 3
\* The first index with the hardened bit set, and the largest u32.
HardenedBit == 2 ^ (IndexBits - 1)
U32Max == 2 ^ IndexBits - 1
\* ... and with the last count whose indices are all below the hardened bit,
\* the first one that reaches it, and the largest count.
Counts == (0 .. MaxSmallCount) \cup {HardenedBit, HardenedBit + 1, U32Max}

\* Order of the (scaled) curve group and modulus of its field.
CurveOrder == 2 ^ 16 - 15
FieldPrime == 2 ^ 16 + 1

Ok(v) == [tag |-> "Ok", val |-> v]
Err(e) == [tag |-> "Err", val |-> e]
IsOk(r) == r.tag = "Ok"
IsErr(r) == r.tag = "Err"
None == [tag |-> "None", val |-> "None"]
\* A local that holds no key yet (0 is no valid scalar).
NoKey == [private_key |-> 0, chain_code |-> 0, depth |-> 0, child_number |-> 0]

(***************************************************************************)
(* Bytes and hex.                                                          *)
(***************************************************************************)
\* A number as n big-endian bytes (numbers of the model stay below 2^24).
BigEndian(n, v) ==
    [k \in 1 .. n |-> IF n - k > 2 THEN 0 ELSE (v \div (256 ^ (n - k))) % 256]

RECURSIVE SumRange(_, _, _)
\* The position-weighted sum of bytes[lo .. hi], by halves.
SumRange(bytes, lo, hi) ==
    IF lo > hi THEN 0
    ELSE IF lo = hi THEN (lo * bytes[lo]) % 65536
    ELSE LET mid == (lo + hi) \div 2
         IN  (SumRange(bytes, lo, mid) + SumRange(bytes, mid + 1, hi)) % 65536

SumBytes(bytes, k) == SumRange(bytes, 1, k)

HexDigit(n) == SubSeq("0123456789abcdef", n + 1, n + 1)

\* The two digits of every byte, high nibble first.
HexByte == [b \in 0 .. 255 |-> HexDigit(b \div 16) \o HexDigit(b % 16)]

RECURSIVE HexRange(_, _, _)
\* The digits of bytes[lo .. hi] in order, by halves.
HexRange(bytes, lo, hi) ==
    IF lo > hi THEN ""
    ELSE IF lo = hi THEN HexByte[bytes[lo]]
    ELSE LET mid == (lo + hi) \div 2
         IN  HexRange(bytes, lo, mid) \o HexRange(bytes, mid + 1, hi)

\* hex::encode: two lowercase digits per byte, high nibble first.
HexEncode(bytes) == HexRange(bytes, 1, Len(bytes))

(***************************************************************************)
(* bip39.rs                                                                *)
(***************************************************************************)
WordList == <<"abandon", "ability", "able", "about">>
WordCounts == {12, 15, 18, 21, 24}

WordIndex(w) == CHOOSE k \in 1 .. Len(WordList) : WordList[k] = w

RECURSIVE EntropyRange(_, _, _)
\* The bits of words[lo .. hi], by halves.
EntropyRange(words, lo, hi) ==
    IF lo > hi THEN 0
    ELSE IF lo = hi THEN lo * (WordIndex(words[lo]) - 1)
    ELSE LET mid == (lo + hi) \div 2
         IN  EntropyRange(words, lo, mid) + EntropyRange(words, mid + 1, hi)

EntropySum(words, k) == EntropyRange(words, 1, k)

\* The word the checksum bits of the entropy select.
ChecksumWord(words) ==
    WordList[((Len(WordList) - 1 + EntropySum(words, Len(words) - 1)) % Len(WordList)) + 1]

\* Mnemonic::from_phrase(mnemonic, Language::English)
FromPhrase(words) ==
    IF Len(words) \notin WordCounts THEN Err("InvalidMnemonic")
    ELSE IF \E k \in 1 .. Len(words) : \A j \in 1 .. Len(WordList) : WordList[j] # words[k]
        THEN Err("InvalidMnemonic")
    ELSE IF words[Len(words)] # ChecksumWord(words) THEN Err("InvalidMnemonic")
    ELSE Ok(words)

\* Mnemonic::to_seed(""): 64 bytes.
ToSeed(words) ==
    LET v == EntropySum(words, Len(words)) + Len(words)
    IN  [k \in 1 .. 64 |-> (v * k + 5 * k * k + v) % 256]

\* Mutant: the word count alone decides.
validate_mnemonic_count_only(m) == Len(m) \in WordCounts

validate_mnemonic(m) == IsOk(FromPhrase(m))

\* Mutant: the seed is computed without the checksum being verified.
mnemonic_to_seed_unchecked(m) ==
    IF /\ Len(m) \in WordCounts
       /\ \A k \in 1 .. Len(m) : \E j \in 1 .. Len(WordList) : WordList[j] = m[k]
    THEN Ok(ToSeed(m)) ELSE Err("InvalidMnemonic")

mnemonic_to_seed(m) ==
    LET parsed == FromPhrase(m)
    IN  IF IsErr(parsed) THEN parsed ELSE Ok(ToSeed(parsed.val))

(***************************************************************************)
(* utils.rs and the secp256k1 calls of hd_wallet.rs                        *)
(***************************************************************************)
\* PublicKey::from_secret_key: the curve point of a private scalar.
PublicKeyFromSecret(k) ==
    [x |-> (k * 251) % FieldPrime, y |-> (k * 9973 + 7) % FieldPrime]

\* PublicKey::serialize: 33 bytes, 0x02 or 0x03 by the parity of y, then x.
Serialize(pk) == <<2 + (pk.y % 2)>> \o BigEndian(32, pk.x)

\* PublicKey::serialize_uncompressed: 65 bytes, 0x04, then x, then y.
SerializeUncompressed(pk) == <<4>> \o BigEndian(32, pk.x) \o BigEndian(32, pk.y)

\* SecretKey::secret_bytes: 32 bytes.
SecretBytes(k) == BigEndian(32, k)

\* Keccak256::new / update / finalize: a 32-byte digest.
Keccak256(data) ==
    LET s == SumBytes(data, Len(data))
    IN  [k \in 1 .. 32 |-> (s + (s \div 256) + 31 * k) % 256]

\* &public_key_bytes[1..]
DropFormatByte(bytes) == SubSeq(bytes, 2, Len(bytes))

\* Mutant: the first 20 bytes of the digest, &result[..20].
AddressBytesLeading(digest) == SubSeq(digest, 1, 20)

\* &result[12..]
AddressBytes(digest) == SubSeq(digest, 13, Len(digest))

public_key_to_address(pk) ==
    "0x" \o HexEncode(AddressBytes(Keccak256(DropFormatByte(SerializeUncompressed(pk)))))

(***************************************************************************)
(* Derivation paths: format!("m/44'/60'/0'/0/{}", i) and path.parse()      *)
(***************************************************************************)
Digits == "0123456789"

RECURSIVE ToDecimal(_)
\* Display of an unsigned integer.
ToDecimal(n) ==
    IF n < 10 THEN SubSeq(Digits, n + 1, n + 1)
    ELSE ToDecimal(n \div 10) \o SubSeq(Digits, (n % 10) + 1, (n % 10) + 1)

\* Mutant: the change segment written hardened.
PathPrefixHardenedChange == "m/44'/60'/0'/0'/"

PathPrefix == "m/44'/60'/0'/0/"

\* Mutant: the parent taken from the internal chain.
ParentPathInternalChain == "m/44'/60'/0'/1/0"

ParentPath == "m/44'/60'/0'/0/0"

\* Mutant: the index keeps counting from where an earlier call stopped.
ChildPathCarried(n) ==
    PathPrefix \o ToDecimal(IF noted.tag = "None" THEN n ELSE n + 1)

ChildPath(n) == PathPrefix \o ToDecimal(n)

CharAt(s, k) == SubSeq(s, k, k)

RECURSIVE SplitFrom(_, _)
\* The pieces of s between its '/' characters, from position k on.
SplitFrom(s, k) ==
    LET slashes == {x \in k .. Len(s) : CharAt(s, x) = "/"}
    IN  IF slashes = {} THEN <<SubSeq(s, k, Len(s))>>
        ELSE LET next == CHOOSE x \in slashes : \A y \in slashes : x <= y
             IN  <<SubSeq(s, k, next - 1)>> \o SplitFrom(s, next + 1)

SplitPath(s) == SplitFrom(s, 1)

IsDigit(c) == \E d \in 1 .. 10 : CharAt(Digits, d) = c
DigitValue(c) == (CHOOSE d \in 1 .. 10 : CharAt(Digits, d) = c) - 1

RECURSIVE ParseU32(_, _, _)
\* str::parse::<u32>: -1 for a non-digit, an empty string or an overflow.
ParseU32(s, k, acc) ==
    IF Len(s) = 0 THEN -1
    ELSE IF k > Len(s) THEN acc
    ELSE IF ~IsDigit(CharAt(s, k)) THEN -1
    ELSE LET v == acc * 10 + DigitValue(CharAt(s, k))
         IN  IF v > U32Max THEN -1 ELSE ParseU32(s, k + 1, v)

\* ChildNumber::from_str: "n'" is hardened, "n" is normal; in both n must
\* be below the hardened bit.
ParseChildNumber(piece) ==
    LET hardened == Len(piece) > 0 /\ CharAt(piece, Len(piece)) = "'"
        digits == IF hardened THEN SubSeq(piece, 1, Len(piece) - 1) ELSE piece
        n == ParseU32(digits, 1, 0)
    IN  IF n < 0 \/ n >= HardenedBit THEN Err("InvalidPath")
        ELSE Ok(IF hardened THEN HardenedBit + n ELSE n)

RECURSIVE ParsePieces(_, _)
ParsePieces(pieces, k) ==
    IF k > Len(pieces) THEN Ok(<<>>)
    ELSE LET cn == ParseChildNumber(pieces[k])
         IN  IF IsErr(cn) THEN cn
             ELSE LET rest == ParsePieces(pieces, k + 1)
                  IN  IF IsErr(rest) THEN rest ELSE Ok(<<cn.val>> \o rest.val)

\* DerivationPath::from_str
ParsePath(s) ==
    LET pieces == SplitPath(s)
    IN  IF pieces[1] # "m" THEN Err("InvalidPath") ELSE ParsePieces(pieces, 2)

(***************************************************************************)
(* Extended keys: ExtendedPrivKey::new and derive_priv                     *)
(***************************************************************************)
\* "Bitcoin seed"
BitcoinSeed == <<66, 105, 116, 99, 111, 105, 110, 32, 115, 101, 101, 100>>

HmacMix(key, data) ==
    (SumBytes(key, Len(key)) * 31 + SumBytes(data, Len(data)) * 17 + 11) % 65536

\* HMAC-SHA512 as its two halves; F holds the inputs whose left half is
\* out of the curve's range.
HmacSha512(F, key, data) ==
    [left  |-> IF <<key, data>> \in F THEN CurveOrder ELSE HmacMix(key, data) % CurveOrder,
     right |-> (HmacMix(key, data) * 7 + 3) % 65536]

\* ExtendedPrivKey::new(&secp, &seed)
NewMasterKey(F, s) ==
    LET h == HmacSha512(F, BitcoinSeed, s)
    IN  IF h.left = 0 \/ h.left >= CurveOrder THEN Err("InvalidScalar")
        ELSE Ok([private_key |-> h.left, chain_code |-> h.right,
                 depth |-> 0, child_number |-> 0])

\* One step of derive_priv (CKDpriv).
CkdPriv(F, k, cn) ==
    LET pk == PublicKeyFromSecret(k.private_key)
        data == IF cn >= HardenedBit THEN <<0, k.private_key, cn>>
                ELSE <<2 + (pk.y % 2), pk.x, cn>>
        h == HmacSha512(F, <<k.chain_code>>, data)
        child == (h.left + k.private_key) % CurveOrder
    IN  IF h.left >= CurveOrder \/ child = 0 THEN Err("InvalidScalar")
        ELSE Ok([private_key |-> child, chain_code |-> h.right,
                 depth |-> k.depth + 1, child_number |-> cn])

RECURSIVE DeriveFrom(_, _, _, _)
DeriveFrom(F, k, path, n) ==
    IF n > Len(path) THEN Ok(k)
    ELSE LET c == CkdPriv(F, k, path[n])
         IN  IF IsErr(c) THEN c ELSE DeriveFrom(F, c.val, path, n + 1)

\* ExtendedPrivKey::derive_priv(&secp, &path)
DerivePriv(F, k, path) == DeriveFrom(F, k, path, 1)

(***************************************************************************)
(* hd_wallet.rs: the body shared by derive_parent_wallet and the loop of   *)
(* derive_child_wallets                                                    *)
(***************************************************************************)
\* WalletInfo { address, private_key, public_key }
WalletInfo(private_key) ==
    LET public_key == PublicKeyFromSecret(private_key)
    IN  [address     |-> public_key_to_address(public_key),
         private_key |-> HexEncode(SecretBytes(private_key)),
         public_key  |-> HexEncode(Serialize(public_key))]

\* master_key.derive_priv(&secp, &path.parse()?)? and the WalletInfo built
\* from the child key.
DeriveWallet(F, master, path) ==
    LET parsed == ParsePath(path)
    IN  IF IsErr(parsed) THEN parsed
        ELSE LET child_key == DerivePriv(F, master, parsed.val)
             IN  IF IsErr(child_key) THEN child_key
                 ELSE Ok(WalletInfo(child_key.val.private_key))

(***************************************************************************)
(* The calls the model makes.                                              *)
(***************************************************************************)
Abandon(n) == [k \in 1 .. n |-> "abandon"]

\* Two phrases that pass from_phrase (12 and 24 words) ...
ValidPhrases == {Abandon(11) \o <<"about">>, <<"ability">> \o Abandon(23)}
\* ... and the empty text, a wrong word count, an unknown word and a wrong
\* checksum.
InvalidPhrases ==
    {<<>>, Abandon(11), Abandon(5) \o <<"zebra">> \o Abandon(5) \o <<"about">>, Abandon(12)}
Phrases == ValidPhrases \cup InvalidPhrases

\* Mutant: one child short.
SplitCountShort == 100 - 1

\* hd_wallet::derive_child_wallets(mnemonic, 100)
SplitCount == 100

\* The key at m/44'/60'/0'/0 of a phrase when no HMAC output is out of range.
ChangeKey(m) ==
    DerivePriv({}, NewMasterKey({}, ToSeed(m)).val,
               <<HardenedBit + 44, HardenedBit + 60, HardenedBit, 0>>).val

\* The HMAC input of the step from m/44'/60'/0'/0 to address index n.
AddressStepInput(m, n) ==
    LET k == ChangeKey(m)
        pk == PublicKeyFromSecret(k.private_key)
    IN  <<<<k.chain_code>>, <<2 + (pk.y % 2), pk.x, n>>>>

\* The HMAC inputs the model lets be out of range, one at a time: the
\* master key of a phrase, its address index 0 and a later address index.
FaultPhrase == Abandon(11) \o <<"about">>
FaultSites ==
    {<<BitcoinSeed, ToSeed(FaultPhrase)>>,
     AddressStepInput(FaultPhrase, 0),
     AddressStepInput(FaultPhrase, MaxSmallCount - 1)}

Signature == <<op, mnemonic, count>>

Init ==
    /\ pc = "idle"
    /\ op = "none"
    /\ phase = "none"
    /\ mnemonic = <<>>
    /\ count = 0
    /\ seed = <<>>
    /\ master_key = NoKey
    /\ i = 0
    /\ wallets = <<>>
    /\ parent = None
    /\ result = None
    /\ walked = <<>>
    /\ noted = None
    /\ hmacFault \in {{}} \cup {{f} : f \in FaultSites}
    /\ pc2 = "idle"
    /\ mnemonic2 = <<>>
    /\ seed2 = <<>>
    /\ master_key2 = NoKey
    /\ result2 = None

\* The calls with a long loop run before the history variable is set and
\* while the second caller is idle.
LongCall(o, c) == o = "create_split_operation" \/ c > MaxSmallCount

Enter(o, ph, m, c) ==
    /\ pc = "idle"
    /\ LongCall(o, c) => (noted.tag = "None" /\ pc2 = "idle")
    /\ pc' = "seed"
    /\ op' = o
    /\ phase' = ph
    /\ mnemonic' = m
    /\ count' = c
    /\ UNCHANGED <<seed, master_key, i, wallets, parent, result, walked, noted, hmacFault, other>>

\* lib.rs derive_parent_wallet(mnemonic)
derive_parent_wallet ==
    \E m \in Phrases : Enter("derive_parent_wallet", "parent", m, 0)

\* lib.rs derive_child_wallets(mnemonic, count)
derive_child_wallets ==
    \E m \in Phrases, c \in Counts : Enter("derive_child_wallets", "children", m, c)

\* lib.rs create_split_operation(mnemonic)
create_split_operation ==
    \E m \in Phrases : Enter("create_split_operation", "parent", m, 0)

\* lib.rs validate_mnemonic(mnemonic): returns the bool, there is no Result.
validate_mnemonic_call ==
    \E m \in Phrases :
        /\ pc = "idle"
        /\ pc' = "done"
        /\ op' = "validate_mnemonic"
        /\ mnemonic' = m
        /\ result' = [tag |-> "Bool", val |-> validate_mnemonic(m)]
        /\ UNCHANGED <<phase, count, seed, master_key, i, wallets, parent, walked,
                       noted, hmacFault, other>>

\* The `?` operator and map_err: the call returns the error.
Fail(e) ==
    /\ result' = e
    /\ pc' = "done"

\* let seed = bip39::mnemonic_to_seed(mnemonic)?;
SeedStep ==
    /\ pc = "seed"
    /\ LET r == mnemonic_to_seed(mnemonic)
       IN  IF IsErr(r)
           THEN Fail(r) /\ UNCHANGED seed
           ELSE seed' = r.val /\ pc' = "master" /\ UNCHANGED result
    /\ UNCHANGED <<op, phase, mnemonic, count, master_key, i, wallets, parent, walked,
                   noted, hmacFault, other>>

\* let master_key = ExtendedPrivKey::new(&secp, &seed)?;
\* let mut wallets = Vec::new();
MasterStep ==
    /\ pc = "master"
    /\ LET r == NewMasterKey(hmacFault, seed)
       IN  IF IsErr(r)
           THEN Fail(r) /\ UNCHANGED <<master_key, i, wallets>>
           ELSE /\ master_key' = r.val
                /\ pc' = IF phase = "parent" THEN "parent" ELSE "loop"
                /\ i' = 0
                /\ wallets' = <<>>
                /\ UNCHANGED result
    /\ UNCHANGED <<op, phase, mnemonic, count, seed, parent, walked, noted, hmacFault, other>>

WalkedOf(path) ==
    LET parsed == ParsePath(path) IN IF IsOk(parsed) THEN parsed.val ELSE <<>>

\* hd_wallet::derive_parent_wallet from the path on; in create_split_operation
\* the wallet becomes `parent` and hd_wallet::derive_child_wallets starts.
ParentStep ==
    /\ pc = "parent"
    /\ walked' = WalkedOf(ParentPath)
    /\ LET w == DeriveWallet(hmacFault, master_key, ParentPath)
       IN  IF IsErr(w)
           THEN Fail(w) /\ UNCHANGED <<phase, count, seed, master_key, parent>>
           ELSE IF op = "derive_parent_wallet"
           THEN /\ result' = Ok(w.val)
                /\ pc' = "done"
                /\ UNCHANGED <<phase, count, seed, master_key, parent>>
           ELSE /\ parent' = w.val
                /\ phase' = "children"
                /\ count' = SplitCount
                /\ seed' = <<>>
                /\ master_key' = NoKey
                /\ pc' = "seed"
                /\ UNCHANGED result
    /\ UNCHANGED <<op, mnemonic, i, wallets, noted, hmacFault, other>>

\* Mutant: the new wallet goes to the front of `wallets`.
LoopStepPrepends ==
    /\ pc = "loop"
    /\ i < count
    /\ walked' = WalkedOf(ChildPath(i))
    /\ LET w == DeriveWallet(hmacFault, master_key, ChildPath(i))
       IN  IF IsErr(w)
           THEN Fail(w) /\ UNCHANGED <<i, wallets>>
           ELSE /\ wallets' = <<w.val>> \o wallets
                /\ i' = i + 1
                /\ UNCHANGED <<pc, result>>
    /\ UNCHANGED <<op, phase, mnemonic, count, seed, master_key, parent, noted,
                   hmacFault, other>>

\* Mutant: a failing index ends the loop and the wallets built so far are
\* returned.
LoopStepKeepsPartial ==
    /\ pc = "loop"
    /\ i < count
    /\ walked' = WalkedOf(ChildPath(i))
    /\ LET w == DeriveWallet(hmacFault, master_key, ChildPath(i))
       IN  IF IsErr(w)
           THEN result' = Ok(wallets) /\ pc' = "done" /\ UNCHANGED <<i, wallets>>
           ELSE /\ wallets' = Append(wallets, w.val)
                /\ i' = i + 1
                /\ UNCHANGED <<pc, result>>
    /\ UNCHANGED <<op, phase, mnemonic, count, seed, master_key, parent, noted,
                   hmacFault, other>>

\* One iteration of `for i in 0..count`.
LoopStep ==
    /\ pc = "loop"
    /\ i < count
    /\ walked' = WalkedOf(ChildPath(i))
    /\ LET w == DeriveWallet(hmacFault, master_key, ChildPath(i))
       IN  IF IsErr(w)
           THEN Fail(w) /\ UNCHANGED <<i, wallets>>
           ELSE /\ wallets' = Append(wallets, w.val)
                /\ i' = i + 1
                /\ UNCHANGED <<pc, result>>
    /\ UNCHANGED <<op, phase, mnemonic, count, seed, master_key, parent, noted, hmacFault, other>>

\* Ok(wallets), and in create_split_operation the SplitResult.
LoopExit ==
    /\ pc = "loop"
    /\ i >= count
    /\ pc' = "done"
    /\ result' = IF op = "create_split_operation"
                 THEN Ok([parent_wallet |-> parent, child_wallets |-> wallets])
                 ELSE Ok(wallets)
    /\ UNCHANGED <<op, phase, mnemonic, count, seed, master_key, i, wallets, parent,
                   walked, noted, hmacFault, other>>

\* The calls the history variable may keep.
Notable ==
    /\ op \in {"derive_parent_wallet", "derive_child_wallets"}
    /\ count <= MaxSmallCount

\* The call has returned; its locals are gone.
Return ==
    /\ pc = "done"
    /\ pc' = "idle"
    /\ op' = "none"
    /\ phase' = "none"
    /\ mnemonic' = <<>>
    /\ count' = 0
    /\ seed' = <<>>
    /\ master_key' = NoKey
    /\ i' = 0
    /\ wallets' = <<>>
    /\ parent' = None
    /\ result' = None
    /\ walked' = <<>>
    /\ \/ noted' = noted
       \/ /\ noted.tag = "None"
          /\ pc2 = "idle"
          /\ Notable
          /\ noted' = [tag |-> "Call", val |-> <<Signature, result>>]
    /\ UNCHANGED <<hmacFault, other>>

(***************************************************************************)
(* The second caller: lib.rs derive_parent_wallet(mnemonic) on a valid     *)
(* phrase, its steps interleaved with those of the first.                  *)
(***************************************************************************)
first == <<pc, op, phase, mnemonic, count, seed, master_key, i, wallets,
           parent, result, walked, noted, hmacFault>>

ConcurrentEnter ==
    \E m \in ValidPhrases :
        /\ pc2 = "idle"
        /\ noted.tag = "None"
        /\ ~LongCall(op, count)
        /\ pc2' = "seed"
        /\ mnemonic2' = m
        /\ UNCHANGED <<seed2, master_key2, result2, first>>

\* let seed = bip39::mnemonic_to_seed(mnemonic)?;
ConcurrentSeedStep ==
    /\ pc2 = "seed"
    /\ LET r == mnemonic_to_seed(mnemonic2)
       IN  IF IsErr(r)
           THEN result2' = r /\ pc2' = "done" /\ UNCHANGED seed2
           ELSE seed2' = r.val /\ pc2' = "master" /\ UNCHANGED result2
    /\ UNCHANGED <<mnemonic2, master_key2, first>>

\* let master_key = ExtendedPrivKey::new(&secp, &seed)?;
ConcurrentMasterStep ==
    /\ pc2 = "master"
    /\ LET r == NewMasterKey(hmacFault, seed2)
       IN  IF IsErr(r)
           THEN result2' = r /\ pc2' = "done" /\ UNCHANGED master_key2
           ELSE master_key2' = r.val /\ pc2' = "parent" /\ UNCHANGED result2
    /\ UNCHANGED <<mnemonic2, seed2, first>>

\* The path, the child key and the WalletInfo.
ConcurrentParentStep ==
    /\ pc2 = "parent"
    /\ result2' = DeriveWallet(hmacFault, master_key2, ParentPath)
    /\ pc2' = "done"
    /\ UNCHANGED <<mnemonic2, seed2, master_key2, first>>

ConcurrentReturn ==
    /\ pc2 = "done"
    /\ pc2' = "idle"
    /\ mnemonic2' = <<>>
    /\ seed2' = <<>>
    /\ master_key2' = NoKey
    /\ result2' = None
    /\ UNCHANGED first

Next ==
    \/ derive_parent_wallet
    \/ derive_child_wallets
    \/ create_split_operation
    \/ validate_mnemonic_call
    \/ SeedStep
    \/ MasterStep
    \/ ParentStep
    \/ LoopStep
    \/ LoopExit
    \/ Return
    \/ ConcurrentEnter
    \/ ConcurrentSeedStep
    \/ ConcurrentMasterStep
    \/ ConcurrentParentStep
    \/ ConcurrentReturn

Spec == Init /\ [][Next]_vars

\* The same calls when every HMAC-SHA512 output is a valid scalar.
InitInRange == Init /\ hmacFault = {}
SpecInRange == InitInRange /\ [][Next]_vars

(***************************************************************************)
(* What the properties compare the calls against: the derivation of        *)
(* m/44'/60'/0'/0/n from the master key of a phrase, written with the      *)
(* child numbers themselves.                                               *)
(***************************************************************************)
Bip44Path(n) == <<HardenedBit + 44, HardenedBit + 60, HardenedBit + 0, 0, n>>

IndependentKey(m, n) ==
    LET mk == NewMasterKey(hmacFault, ToSeed(m))
    IN  IF IsErr(mk) THEN mk ELSE DerivePriv(hmacFault, mk.val, Bip44Path(n))

IndependentWallet(m, n) == WalletInfo(IndependentKey(m, n).val.private_key)

MasterFails(m) == IsErr(NewMasterKey(hmacFault, ToSeed(m)))

\* Some index below n whose derivation fails (none when the master key fails).
DerivationFailsBelow(m, n) ==
    \E k \in 0 .. n - 1 : k < HardenedBit /\ IsErr(IndependentKey(m, k))

Returned(o) == pc = "done" /\ op = o
Valid(m) == m \in ValidPhrases
IsError(r, e) == r.tag = "Err" /\ r.val = e
ErrorKinds == {"InvalidMnemonic", "InvalidPath", "InvalidScalar"}

\* result holds n wallets, the k-th being the wallet of index k - 1.
InIndexOrder(ws, m, n) ==
    /\ Len(ws) = n
    /\ \A k \in 1 .. n : ws[k] = IndependentWallet(m, k - 1)

C2_ChildZeroIsParent ==
    (Returned("create_split_operation") /\ Valid(mnemonic) /\ IsOk(result)) =>
        /\ Len(result.val.child_wallets) > 0
        /\ result.val.child_wallets[1].address = result.val.parent_wallet.address
        /\ result.val.child_wallets[1].private_key = result.val.parent_wallet.private_key
        /\ result.val.child_wallets[1].public_key = result.val.parent_wallet.public_key

C2_Witness ==
    /\ Returned("create_split_operation")
    /\ Valid(mnemonic)
    /\ IsOk(result)
    /\ Len(result.val.child_wallets) > 1
    /\ result.val.child_wallets[2] # result.val.parent_wallet

DeriveOps == {"derive_parent_wallet", "derive_child_wallets", "create_split_operation"}

(***************************************************************************)
(* C3: on a phrase that fails validation the three derivation entry points *)
(* (derive_child_wallets with any count, 0 included) return the            *)
(* InvalidMnemonic error and no wallet, and the call never gets past the   *)
(* seed step: no seed, no master key, no derivation, no wallet built.      *)
(***************************************************************************)
C3_InvalidMnemonicFirst ==
    (op \in DeriveOps /\ ~validate_mnemonic(mnemonic)) =>
        /\ pc \in {"seed", "done"}
        /\ seed = <<>>
        /\ master_key = NoKey
        /\ walked = <<>>
        /\ wallets = <<>>
        /\ parent.tag = "None"
        /\ pc = "done" => IsError(result, "InvalidMnemonic")

C3_Witness ==
    /\ Returned("derive_child_wallets")
    /\ ~validate_mnemonic(mnemonic)
    /\ count = 0
    /\ IsError(result, "InvalidMnemonic")

(***************************************************************************)
(* C4 as stated: an invalid private scalar in a child derivation step is   *)
(* never surfaced to the caller of the three derivation entry points.      *)
(***************************************************************************)
C4_InvalidScalarNotSurfaced ==
    (pc = "done" /\ op \in DeriveOps /\ master_key # NoKey)
        => ~IsError(result, "InvalidScalar")

(***************************************************************************)
(* C5: validate_mnemonic returns a boolean for every input, never an       *)
(* error, and mnemonic_to_seed succeeds, with a 64-byte seed, exactly on   *)
(* the inputs for which validate_mnemonic returns true.                    *)
(***************************************************************************)
C5_ValidateAgreesWithSeed ==
    /\ Returned("validate_mnemonic") =>
          /\ result.tag = "Bool"
          /\ result.val \in BOOLEAN
          /\ result.val <=> IsOk(mnemonic_to_seed(mnemonic))
    /\ (op \in DeriveOps /\ phase = "parent" /\ pc \in {"master", "parent", "done"}) =>
          /\ validate_mnemonic(mnemonic) <=> Len(seed) = 64
          /\ ~validate_mnemonic(mnemonic) <=> (seed = <<>> /\ IsError(result, "InvalidMnemonic"))
    /\ (op \in DeriveOps /\ phase = "children" /\ pc \in {"master", "loop", "done"}) =>
          /\ validate_mnemonic(mnemonic) <=> Len(seed) = 64
          /\ ~validate_mnemonic(mnemonic) <=> (seed = <<>> /\ IsError(result, "InvalidMnemonic"))

C5_WitnessWrongCount ==
    /\ Returned("validate_mnemonic")
    /\ Len(mnemonic) = 11
    /\ result.val = FALSE

(***************************************************************************)
(* C6: on a valid phrase create_split_operation returns either a           *)
(* SplitResult or an error, never both.  The SplitResult holds the wallet  *)
(* of index 0 as parent_wallet and exactly 100 child wallets, the k-th     *)
(* being the wallet of index k; the error is returned exactly when the     *)
(* parent derivation or the child batch fails.                             *)
(***************************************************************************)
C6_SplitShape ==
    (Returned("create_split_operation") /\ Valid(mnemonic)) =>
        /\ IsOk(result) =>
              /\ DOMAIN result.val = {"parent_wallet", "child_wallets"}
              /\ result.val.parent_wallet = IndependentWallet(mnemonic, 0)
              /\ Len(result.val.child_wallets) = 100
              /\ \A k \in 0 .. 99 :
                    result.val.child_wallets[k + 1] = IndependentWallet(mnemonic, k)
        /\ IsErr(result) <=> (MasterFails(mnemonic) \/ DerivationFailsBelow(mnemonic, 100))
        /\ IsErr(result) => result.val \in ErrorKinds
        /\ result.tag \in {"Ok", "Err"}

C6_Witness ==
    /\ Returned("create_split_operation")
    /\ Valid(mnemonic)
    /\ IsOk(result)
    /\ Len(result.val.child_wallets) = 100
    /\ result.val.child_wallets[100] = IndependentWallet(mnemonic, 99)

(***************************************************************************)
(* C7: a derive_parent_wallet or derive_child_wallets call returns what    *)
(* an earlier call with the same arguments returned, whatever calls ran    *)
(* between the two; and two derive_parent_wallet calls on one phrase whose *)
(* steps interleave, with each other or with any other call, return the    *)
(* same wallet, the one of index 0.                                        *)
(***************************************************************************)
C7_Deterministic ==
    /\ (pc = "done" /\ noted.tag = "Call" /\ noted.val[1] = Signature)
          => result = noted.val[2]
    /\ (Returned("derive_parent_wallet") /\ pc2 = "done" /\ mnemonic2 = mnemonic)
          => result2 = result
    /\ (pc2 = "done" /\ IsOk(result2)) => result2.val = IndependentWallet(mnemonic2, 0)

C7_Witness ==
    /\ Returned("derive_parent_wallet")
    /\ Valid(mnemonic)
    /\ IsOk(result)
    /\ noted.tag = "Call"
    /\ noted.val[1] = Signature

(***************************************************************************)
(* C8: every WalletInfo an entry point returns has                         *)
(*   address     = "0x" and 40 lowercase hex digits, the last 20 bytes of  *)
(*                 the 32-byte Keccak-256 digest of the 64 bytes that      *)
(*                 follow the format byte of the 65-byte uncompressed key; *)
(*   public_key  = 66 hex digits starting with 02 or 03;                   *)
(*   private_key = 64 hex digits;                                          *)
(* the two keys without a prefix.                                          *)
(***************************************************************************)
LowerHex ==
    {"0", "1", "2", "3", "4", "5", "6", "7", "8", "9", "a", "b", "c", "d", "e", "f"}

IsLowerHex(str, n) ==
    /\ Len(str) = n
    /\ \A k \in 1 .. n : CharAt(str, k) \in LowerHex

\* The wallets of the returned value, each with the index it was derived at.
ReturnedWallets ==
    IF pc # "done" \/ ~IsOk(result) THEN {}
    ELSE IF op = "derive_parent_wallet" THEN {<<0, result.val>>}
    ELSE IF op = "derive_child_wallets"
        THEN {<<k - 1, result.val[k]>> : k \in 1 .. Len(result.val)}
    ELSE {<<0, result.val.parent_wallet>>}
         \cup {<<k - 1, result.val.child_wallets[k]>> :
                   k \in 1 .. Len(result.val.child_wallets)}

WellFormed(n, w) ==
    LET point == PublicKeyFromSecret(IndependentKey(mnemonic, n).val.private_key)
        uncompressed == SerializeUncompressed(point)
        hashed == SubSeq(uncompressed, 2, 65)
        digest == Keccak256(hashed)
    IN  /\ DOMAIN w = {"address", "private_key", "public_key"}
        /\ Len(uncompressed) = 65
        /\ Len(hashed) = 64
        /\ Len(digest) = 32
        /\ w.address = "0x" \o HexEncode(SubSeq(digest, 32 - 20 + 1, 32))
        /\ Len(w.address) = 42
        /\ SubSeq(w.address, 1, 2) = "0x"
        /\ IsLowerHex(SubSeq(w.address, 3, 42), 40)
        /\ IsLowerHex(w.public_key, 66)
        /\ SubSeq(w.public_key, 1, 2) \in {"02", "03"}
        /\ IsLowerHex(w.private_key, 64)

C8_WalletFormat == \A nw \in ReturnedWallets : WellFormed(nw[1], nw[2])

C8_Witness ==
    /\ Returned("derive_child_wallets")
    /\ \E a, b \in ReturnedWallets :
          /\ SubSeq(a[2].public_key, 1, 2) = "02"
          /\ SubSeq(b[2].public_key, 1, 2) = "03"
          /\ a[2].address # b[2].address

C10_AllOrNothing ==
    Returned("derive_child_wallets") =>
        /\ result.tag \in {"Ok", "Err"}
        /\ IsErr(result) => result.val \in ErrorKinds
        /\ (IsErr(result) /\ master_key # NoKey) =>
              /\ i < count
              /\ Len(wallets) = i
              /\ result = DeriveWallet(hmacFault, master_key, ChildPath(i))
        /\ IsOk(result) =>
              /\ Len(result.val) = count
              /\ \A k \in 1 .. count :
                    /\ IsOk(DeriveWallet(hmacFault, master_key, ChildPath(k - 1)))
                    /\ result.val[k] = IndependentWallet(mnemonic, k - 1)

C10_Witness ==
    /\ Returned("derive_child_wallets")
    /\ count = MaxSmallCount
    /\ IsError(result, "InvalidScalar")
    /\ Len(wallets) = MaxSmallCount - 1

C7_WitnessInterleaved ==
    /\ Returned("derive_parent_wallet")
    /\ pc2 = "done"
    /\ mnemonic2 = mnemonic
    /\ IsOk(result2)

====
